---- MODULE Spec2Model ----
(***************************************************************************)
(* Alias analysis of nvFuser (csrc/alias_analysis.cpp) and the DeviceMesh  *)
(* value object (csrc/multidevice/device_mesh.h).                          *)
(*                                                                         *)
(* std::optional<bool> is modelled by the three strings "true", "false"    *)
(* and "nullopt".  A TensorView is a positive integer, nullptr is 0.       *)
(***************************************************************************)
EXTENDS Integers, Sequences, FiniteSets, TLC

VARIABLES
    fusion,            \* the immutable input graph (tensors, and the op under analysis)
    alias_to_source,   \* AliasAnalysisResult::alias_to_source_
    out_to_root,       \* AliasAnalysisResult::out_to_root_
    can_override,      \* finalize's can_override_empty_allocation_domain
    pc,                \* where the analysis stands
    error,             \* the fatal error raised by the last call, or NoError
    this_layout,       \* Layout::isCompliantWith: the layout it is called on
    required_layout,   \* Layout::isCompliantWith: its argument
    compliant,         \* Layout::isCompliantWith: its result, once called
    vector_,           \* DeviceMesh::vector_
    devices            \* the device list last given to a DeviceMesh

layoutVars == <<this_layout, required_layout, compliant>>
meshVars == <<vector_, devices>>
vars == <<fusion, alias_to_source, out_to_root, can_override, pc, error,
          this_layout, required_layout, compliant, vector_, devices>>

(***************************************************************************)
(* Bounds of the model.                                                    *)
(***************************************************************************)
NumTensors == 4      \* tensors of a fusion whose alias chains are walked
MaxRank == 2         \* dimensions of a tensor whose layout is gated
MaxMeshLen == 4      \* devices in a list given to a DeviceMesh
MaxDevice == 2       \* device indices are 0..MaxDevice
MaxSliceRank == 3    \* dimensions of a sliced tensor
MaxBcastRank == 2    \* dimensions of a tensor given to a broadcast
MaxNewBroadcast == 2 \* dimensions a broadcast introduces
MaxViewRank == 2     \* dimensions of a tensor given to a view
MaxTransforms == 2   \* splits and merges between a view's root and rfactor

(***************************************************************************)
(* Small helpers.                                                          *)
(***************************************************************************)
Null == 0
NoError == [kind |-> "none"]
Contiguity == {"true", "false", "nullopt"}
Range(s) == {s[i] : i \in DOMAIN s}
EmptyMap == [x \in {} |-> Null]

\* All orderings of the elements of the finite set S.
RECURSIVE Perms(_)
Perms(S) ==
    IF S = {} THEN {<<>>}
    ELSE UNION {{<<x>> \o p : p \in Perms(S \ {x})} : x \in S}

\* All sequences over S of length exactly n.
SeqsOfLen(S, n) == [1..n -> S]

(***************************************************************************)
(* Layout                                                                  *)
(***************************************************************************)
Layout(allocation_domain, contiguity) ==
    [allocation_domain |-> allocation_domain, contiguity |-> contiguity]

contiguityIsCompliant_Symmetric(actual, required) ==
    \/ actual = required
    \/ actual \in {"true", "false"} /\ required \in {"true", "false"}

contiguityIsCompliant(actual, required) ==
    IF actual = "true" /\ required = "false"
    THEN TRUE
    ELSE actual = required

isCompliantWith(self, required) ==
    IF required.allocation_domain = <<>>
    THEN TRUE
    ELSE IF self.allocation_domain # required.allocation_domain
    THEN FALSE
    ELSE \A i \in 1..Len(self.allocation_domain) :
             contiguityIsCompliant(self.contiguity[i], required.contiguity[i])

(***************************************************************************)
(* TensorView accessors the analysis reads.                                *)
(***************************************************************************)
Tensors == DOMAIN fusion.tv
isFusionInput(t) == fusion.tv[t].isFusionInput
isFusionOutput(t) == fusion.tv[t].isFusionOutput
getRootDomain(t) == fusion.tv[t].root
getMaybeRFactorDomain(t) == fusion.tv[t].rfactor
getAllocationDomain(t) == fusion.tv[t].allocation
getContiguity(t) == fusion.tv[t].contiguity
getMaybeAllocationDomain(t) ==
    IF getAllocationDomain(t) = <<>>
    THEN getMaybeRFactorDomain(t)
    ELSE getAllocationDomain(t)
outputs == {t \in Tensors : isFusionOutput(t)}

(***************************************************************************)
(* AliasAnalysisResult                                                     *)
(***************************************************************************)
preferredLayout(t) ==
    IF t \in DOMAIN alias_to_source
    THEN alias_to_source[t].layout
    ELSE Layout(getMaybeAllocationDomain(t), getContiguity(t))

\* The do-while loop of findNearestAliasedIo, entered with `root`.
RECURSIVE NearestFrom(_)
NearestFrom(root) ==
    LET next == IF root \in DOMAIN alias_to_source
                THEN alias_to_source[root].source
                ELSE Null
    IN  IF next # Null /\ ~isFusionInput(next) /\ ~isFusionOutput(next)
        THEN NearestFrom(next)
        ELSE next

findNearestAliasedIo_DirectSource(fusion_out) ==
    IF fusion_out \in DOMAIN alias_to_source
    THEN alias_to_source[fusion_out].source
    ELSE Null

findNearestAliasedIo(fusion_out) == NearestFrom(fusion_out)

getNearestAliasedIo(fusion_out) ==
    IF fusion_out \in DOMAIN out_to_root THEN out_to_root[fusion_out] ELSE Null

okToRelayout_Swapped(out, new_layout, can_override_empty_allocation_domain) ==
    LET out_allocation == IF can_override_empty_allocation_domain
                          THEN getMaybeAllocationDomain(out)
                          ELSE getAllocationDomain(out)
    IN  isCompliantWith(new_layout, Layout(out_allocation, getContiguity(out)))

okToRelayout_Always(out, new_layout, can_override_empty_allocation_domain) ==
    TRUE

okToRelayout(out, new_layout, can_override_empty_allocation_domain) ==
    LET out_allocation == IF can_override_empty_allocation_domain
                          THEN getAllocationDomain(out)
                          ELSE getMaybeAllocationDomain(out)
    IN  isCompliantWith(new_layout, Layout(out_allocation, getContiguity(out)))

\* Outcome of add(alias, source, layout) on the map a2s: emplace does not touch
\* an existing entry, and NVF_ERROR(inserted) raises when it found one.
AddOutcome_Overwrite(a2s, alias, source, layout) ==
    [map |-> (alias :> [source |-> source, layout |-> layout]) @@ a2s,
     error |-> NoError]

AddOutcome(a2s, alias, source, layout) ==
    IF alias \in DOMAIN a2s
    THEN [map |-> a2s,
          error |-> [kind |-> "two sources", alias |-> alias, source |-> source,
                     existing |-> a2s[alias].source]]
    ELSE [map |-> a2s @@ (alias :> [source |-> source, layout |-> layout]),
          error |-> NoError]

(***************************************************************************)
(* The fusions analysed.  Two families keep the state space small:         *)
(*  - chains: NumTensors scalar (rank 0) tensors with free input/output    *)
(*    flags, so that alias chains of every shape are walked;               *)
(*  - gates: a producer (tensor 1) and a consumer (tensor 2) of rank       *)
(*    1..MaxRank, the consumer with every allocation domain and contiguity *)
(*    a fusion output can be given.                                        *)
(* Tensors are numbered in the topological order of Fusion::exprs().       *)
(***************************************************************************)
Ids(rank) == [k \in 1..rank |-> k]

TensorView(in, out, rfactor, allocation, contiguity) ==
    [isFusionInput |-> in, isFusionOutput |-> out, root |-> rfactor,
     rfactor |-> rfactor, allocation |-> allocation, contiguity |-> contiguity]

\* A tensor is a fusion input, a fusion output or an intermediate.
IoFlags == {<<TRUE, FALSE>>, <<FALSE, TRUE>>, <<FALSE, FALSE>>}

PlainTensors(rank) ==
    {TensorView(io[1], io[2], Ids(rank), <<>>, [k \in 1..rank |-> "true"]) :
        io \in IoFlags}

OutputTensors(rank) ==
    {TensorView(FALSE, TRUE, Ids(rank), a, c) :
        a \in {<<>>} \cup Perms(1..rank),
        c \in SeqsOfLen(Contiguity, rank)}

ChainFusions == {[tv |-> tv] : tv \in [1..NumTensors -> PlainTensors(0)]}

GateFusions ==
    UNION {{[tv |-> <<p, c>>] :
               p \in PlainTensors(rank),
               c \in OutputTensors(rank) \cup
                     {t \in PlainTensors(rank) : ~t.isFusionOutput}} :
           rank \in 1..MaxRank}

Fusions == ChainFusions \cup GateFusions

\* The layouts a rule can register for tensor t: an order of its dimensions
\* with any contiguity flags.
LayoutsOf(t) ==
    {Layout(p, c) :
        p \in Perms(Range(getMaybeRFactorDomain(t))),
        c \in SeqsOfLen(Contiguity, Len(getMaybeRFactorDomain(t)))}

\* The parts of the state a specification does not use.
AliasIdle ==
    /\ alias_to_source = EmptyMap
    /\ out_to_root = EmptyMap
    /\ can_override = FALSE
LayoutIdle ==
    /\ this_layout = Layout(<<>>, <<>>)
    /\ required_layout = Layout(<<>>, <<>>)
    /\ compliant = "unchecked"
MeshIdle ==
    /\ vector_ = <<>>
    /\ devices = <<>>

Init ==
    /\ fusion \in Fusions
    /\ AliasIdle
    /\ pc = "analysis"
    /\ error = NoError
    /\ LayoutIdle
    /\ MeshIdle

\* AliasAnalysisResult::add, called for an op whose input `source` precedes its
\* output `alias` in topological order.  A fatal error aborts the analysis.
Add(alias, source, layout) ==
    /\ pc = "analysis"
    /\ source < alias
    /\ LET r == AddOutcome(alias_to_source, alias, source, layout)
       IN  /\ alias_to_source' = r.map
           /\ error' = r.error
           /\ pc' = IF r.error = NoError THEN "analysis" ELSE "aborted"
    /\ UNCHANGED <<fusion, out_to_root, can_override, layoutVars, meshVars>>

\* AliasAnalysisResult::finalize: every fusion output with a nearest aliased
\* io whose preferred layout is ok to relayout enters out_to_root.
FinalizedMap(can_override_empty_allocation_domain) ==
    LET kept == {out \in outputs :
                    /\ findNearestAliasedIo(out) # Null
                    /\ okToRelayout(out, preferredLayout(out),
                                    can_override_empty_allocation_domain)}
    IN  [out \in kept |-> findNearestAliasedIo(out)]

Finalize(can_override_empty_allocation_domain) ==
    /\ pc = "analysis"
    /\ out_to_root' = FinalizedMap(can_override_empty_allocation_domain)
    /\ can_override' = can_override_empty_allocation_domain
    /\ pc' = "finalized"
    /\ error' = NoError
    /\ UNCHANGED <<fusion, alias_to_source, layoutVars, meshVars>>

\* add does not read `layout` when `alias` is already registered (its outcome
\* is the error whatever the layout), so one layout stands for all there.
AddStep ==
    \E alias \in Tensors, source \in Tensors :
        \E layout \in IF alias \in DOMAIN alias_to_source
                       THEN {alias_to_source[alias].layout}
                       ELSE LayoutsOf(alias) :
            Add(alias, source, layout)

FinalizeStep == \E flag \in BOOLEAN : Finalize(flag)

Next == AddStep \/ FinalizeStep

Spec == Init /\ [][Next]_vars

(***************************************************************************)
(* Layout::isCompliantWith as a function of its two layouts.               *)
(***************************************************************************)
\* Well-formed layouts: distinct dimensions, one contiguity flag for each.
WellFormedLayouts ==
    UNION {{Layout(p, c) : p \in Perms(S), c \in SeqsOfLen(Contiguity, Cardinality(S))} :
           S \in SUBSET (1..MaxRank)}

InitLayout ==
    /\ this_layout \in WellFormedLayouts
    /\ required_layout \in WellFormedLayouts
    /\ compliant = "unchecked"
    /\ fusion = [tv |-> <<>>]
    /\ AliasIdle
    /\ pc = "layout"
    /\ error = NoError
    /\ MeshIdle

CallIsCompliantWith ==
    /\ compliant = "unchecked"
    /\ compliant' = IF isCompliantWith(this_layout, required_layout)
                  THEN "yes" ELSE "no"
    /\ UNCHANGED <<fusion, alias_to_source, out_to_root, can_override, pc, error,
                   this_layout, required_layout, meshVars>>

NextLayout == CallIsCompliantWith

SpecLayout == InitLayout /\ [][NextLayout]_vars

(***************************************************************************)
(* DeviceMesh                                                              *)
(***************************************************************************)
DeviceIdx == 0..MaxDevice
DeviceLists == UNION {SeqsOfLen(DeviceIdx, n) : n \in 0..MaxMeshLen}

\* std::unique keeps the first element of every run of equal elements.
RECURSIVE Unique(_)
Unique(s) ==
    IF Len(s) <= 1 THEN s
    ELSE LET rest == Unique(Tail(s))
         IN  IF Head(s) = Head(rest) THEN rest ELSE <<Head(s)>> \o rest

\* vector_ after std::unique(vector_.begin(), vector_.end()): the kept
\* elements, then elements of unspecified value up to the old length.
AfterUnique(s) ==
    {Unique(s) \o tail : tail \in SeqsOfLen(Range(s), Len(s) - Len(Unique(s)))}

\* setDevices: vector_ = devices, then NVF_ERROR(std::unique(...) == end).
setDevices(d) ==
    /\ devices' = d
    /\ vector_' \in AfterUnique(d)
    /\ error' = IF Len(Unique(d)) = Len(d)
                THEN NoError
                ELSE [kind |-> "device mesh has duplicates"]

InitMesh ==
    /\ vector_ = <<>>
    /\ devices = <<>>
    /\ error = NoError
    /\ pc = "mesh"
    /\ fusion = [tv |-> <<>>]
    /\ AliasIdle
    /\ LayoutIdle

\* DeviceMesh(devices) and operator=(devices) both run setDevices.
AssignDevices ==
    /\ \E d \in DeviceLists : setDevices(d)
    /\ UNCHANGED <<fusion, alias_to_source, out_to_root, can_override, pc, layoutVars>>

NextMesh == AssignDevices

SpecMesh == InitMesh /\ [][NextMesh]_vars

(***************************************************************************)
(* IterDomains and the per-operation rules.  A rule is analysed on a       *)
(* fusion of two tensors, the op's input (tensor 1) and output (tensor 2). *)
(* An IterDomain is a record; its id is its identity.                      *)
(***************************************************************************)
IterDomain(id, iter_type, expanded) ==
    [id |-> id, iter_type |-> iter_type, expanded |-> expanded]
isReduction(d) == d.iter_type = "reduction"
isBroadcast(d) == d.iter_type = "broadcast"
hasExpandedExtent(d) == d.expanded

OpIn == 1
OpOut == 2

\* s without the elements for which drop[i] holds.
RECURSIVE Without(_, _)
Without(s, drop) ==
    IF s = <<>> THEN <<>>
    ELSE (IF drop[1] THEN <<>> ELSE <<Head(s)>>)
         \o Without(Tail(s), Tail(drop))

NonReduction(s) == Without(s, [i \in DOMAIN s |-> isReduction(s[i])])

\* The index of x in the sequence s of distinct elements.
IndexOf(s, x) == CHOOSE i \in DOMAIN s : s[i] = x

\* ir_utils::computePermutation(in, out).has_value()
isPermutation(in, out) ==
    /\ Len(in) = Len(out)
    /\ Range(in) = Range(out)

\* PairwiseRootDomainMap(in, out).mapProducerToConsumer(): the producer's
\* non-reduction rfactor IterDomains, in order, onto the consumer's root
\* IterDomains that come from the producer.
mapProducerToConsumer(in, out) ==
    LET from == NonReduction(getMaybeRFactorDomain(in))
        to == fusion.op.mapped_root
    IN  [d \in Range(from) |-> to[IndexOf(from, d)]]

(***************************************************************************)
(* AliasFinder::handle for a SliceOp                                       *)
(***************************************************************************)
\* A Resize is among the exprs between out's root and the IterDomain d.
isSliced(d) == d \in fusion.op.resized

\* The minor-to-major scan of the contiguity loop, at index i with the flag
\* next_non_broadcast_is_non_contiguous = pending; yields contiguity[1..i].
RECURSIVE SliceScan_BroadcastNeverSets(_, _, _, _)
SliceScan_BroadcastNeverSets(allocation_domain, in_contiguity, i, pending) ==
    IF i = 0 THEN <<>>
    ELSE LET d == allocation_domain[i]
             c == IF isBroadcast(d) THEN "nullopt"
                  ELSE IF pending THEN "false"
                  ELSE in_contiguity[i]
             kept == IF isBroadcast(d) THEN pending ELSE FALSE
             next == IF isSliced(d) /\ ~isBroadcast(d) THEN TRUE ELSE kept
         IN  SliceScan_BroadcastNeverSets(allocation_domain, in_contiguity, i - 1, next)
             \o <<c>>

RECURSIVE SliceScan(_, _, _, _)
SliceScan(allocation_domain, in_contiguity, i, pending) ==
    IF i = 0 THEN <<>>
    ELSE LET d == allocation_domain[i]
             c == IF isBroadcast(d) THEN "nullopt"
                  ELSE IF pending THEN "false"
                  ELSE in_contiguity[i]
             kept == IF isBroadcast(d) THEN pending ELSE FALSE
             next == IF isSliced(d) THEN TRUE ELSE kept
         IN  SliceScan(allocation_domain, in_contiguity, i - 1, next) \o <<c>>

\* out_layout of the slice rule, from in's preferred layout.
SliceOutLayout(in_layout) ==
    LET in_rfactor_to_out_root == mapProducerToConsumer(OpIn, OpOut)
        out_root == getRootDomain(OpOut)
        out_rfactor == getMaybeRFactorDomain(OpOut)
        out_rank == Len(out_rfactor)
        out_root_to_rfactor ==
            [d \in Range(out_root) |-> out_rfactor[IndexOf(out_root, d)]]
        kept == NonReduction(in_layout.allocation_domain)
        allocation_domain ==
            [i \in DOMAIN kept |-> out_root_to_rfactor[in_rfactor_to_out_root[kept[i]]]]
    IN  Layout(allocation_domain,
               SliceScan(allocation_domain, in_layout.contiguity, out_rank, FALSE))

HandleSlice ==
    /\ pc = "rule"
    /\ fusion.op.kind = "slice"
    /\ pc' = "handled"
    /\ LET in_layout == preferredLayout(OpIn)
       IN  IF ~isPermutation(getMaybeRFactorDomain(OpIn), in_layout.allocation_domain)
           THEN UNCHANGED <<alias_to_source, error>>
           ELSE LET r == AddOutcome(alias_to_source, OpOut, OpIn,
                                    SliceOutLayout(in_layout))
                IN  /\ alias_to_source' = r.map
                    /\ error' = r.error
    /\ UNCHANGED <<fusion, out_to_root, can_override, layoutVars, meshVars>>

\* The sliced tensors: every dimension is a reduction, a broadcast or an
\* iteration dimension; a non-reduction dimension is sliced or not, and a
\* sliced iteration dimension stays one or becomes a broadcast (extent 1).
SliceDimKinds ==
    {[iter_type |-> "reduction", contiguity |-> "nullopt", sliced |-> FALSE,
      to |-> "reduction"]}
    \cup {[iter_type |-> "broadcast", contiguity |-> "nullopt", sliced |-> sl,
           to |-> "broadcast"] : sl \in BOOLEAN}
    \cup {[iter_type |-> "iteration", contiguity |-> c, sliced |-> FALSE,
           to |-> "iteration"] : c \in {"true", "false"}}
    \cup {[iter_type |-> "iteration", contiguity |-> c, sliced |-> TRUE,
           to |-> t] : c \in {"true", "false"}, t \in {"iteration", "broadcast"}}

\* The allocation orders of a tensor with rfactor domain rf: its
\* permutations, and one order that is no permutation of it.
AllocationOrders(rf) ==
    Perms(Range(rf)) \cup (IF Len(rf) >= 2 THEN {Tail(rf)} ELSE {})

SliceFusion(kinds, allocation) ==
    LET rank == Len(kinds)
        in_rfactor == [k \in 1..rank |-> IterDomain(k, kinds[k].iter_type, FALSE)]
        keep == [k \in 1..rank |-> kinds[k].iter_type # "reduction"]
        root_of == [k \in 1..rank |-> IterDomain(10 + k, kinds[k].iter_type, FALSE)]
        rfactor_of == [k \in 1..rank |->
                          IF kinds[k].sliced
                          THEN IterDomain(20 + k, kinds[k].to, FALSE)
                          ELSE root_of[k]]
        out_root == Without(root_of, [k \in 1..rank |-> ~keep[k]])
        out_rfactor == Without(rfactor_of, [k \in 1..rank |-> ~keep[k]])
        alloc == [i \in DOMAIN allocation |-> in_rfactor[allocation[i]]]
        contig == [i \in DOMAIN allocation |-> kinds[allocation[i]].contiguity]
    IN  [tv |-> <<[isFusionInput |-> TRUE, isFusionOutput |-> FALSE,
                   root |-> in_rfactor, rfactor |-> in_rfactor,
                   allocation |-> alloc, contiguity |-> contig],
                  [isFusionInput |-> FALSE, isFusionOutput |-> TRUE,
                   root |-> out_root, rfactor |-> out_rfactor,
                   allocation |-> <<>>,
                   contiguity |-> [i \in DOMAIN out_rfactor |-> "nullopt"]]>>,
         op |-> [kind |-> "slice", mapped_root |-> out_root,
                 resized |-> {rfactor_of[k] : k \in {j \in 1..rank : kinds[j].sliced}}]]

InitSlice ==
    /\ \E rank \in 1..MaxSliceRank :
           \E kinds \in SeqsOfLen(SliceDimKinds, rank),
              allocation \in AllocationOrders(Ids(rank)) :
               fusion = SliceFusion(kinds, allocation)
    /\ AliasIdle
    /\ pc = "rule"
    /\ error = NoError
    /\ LayoutIdle
    /\ MeshIdle

NextSlice == HandleSlice

SpecSlice == InitSlice /\ [][NextSlice]_vars

(***************************************************************************)
(* AliasFinder::handle for a BroadcastOp                                   *)
(***************************************************************************)
isBroadcastDim(i) == fusion.op.is_broadcast_dim[i]

BroadcastOutLayout_NewFirst(in_layout) ==
    LET in_rfactor_to_out_root == mapProducerToConsumer(OpIn, OpOut)
        drop == [i \in DOMAIN in_layout.allocation_domain |->
                    isReduction(in_layout.allocation_domain[i])]
        kept == Without(in_layout.allocation_domain, drop)
        out_rfactor == getMaybeRFactorDomain(OpOut)
        new == Without(out_rfactor, [i \in DOMAIN out_rfactor |-> ~isBroadcastDim(i)])
    IN  Layout(new \o [i \in DOMAIN kept |-> in_rfactor_to_out_root[kept[i]]],
               [i \in DOMAIN new |-> "nullopt"] \o Without(in_layout.contiguity, drop))

\* out_layout of the broadcast rule: the first loop keeps the input's
\* non-reduction dimensions with their flags, the second appends the new
\* broadcast dimensions of out's rfactor domain.
BroadcastOutLayout(in_layout) ==
    LET in_rfactor_to_out_root == mapProducerToConsumer(OpIn, OpOut)
        drop == [i \in DOMAIN in_layout.allocation_domain |->
                    isReduction(in_layout.allocation_domain[i])]
        kept == Without(in_layout.allocation_domain, drop)
        out_rfactor == getMaybeRFactorDomain(OpOut)
        new == Without(out_rfactor, [i \in DOMAIN out_rfactor |-> ~isBroadcastDim(i)])
    IN  Layout([i \in DOMAIN kept |-> in_rfactor_to_out_root[kept[i]]] \o new,
               Without(in_layout.contiguity, drop) \o [i \in DOMAIN new |-> "nullopt"])

HandleBroadcast ==
    /\ pc = "rule"
    /\ fusion.op.kind = "broadcast"
    /\ pc' = "handled"
    /\ LET in_layout == preferredLayout(OpIn)
       IN  IF ~isPermutation(getMaybeRFactorDomain(OpIn), in_layout.allocation_domain)
           THEN UNCHANGED <<alias_to_source, error>>
           ELSE LET r == AddOutcome(alias_to_source, OpOut, OpIn,
                                    BroadcastOutLayout(in_layout))
                IN  /\ alias_to_source' = r.map
                    /\ error' = r.error
    /\ UNCHANGED <<fusion, out_to_root, can_override, layoutVars, meshVars>>

\* The broadcast tensors: a dimension of the input is a reduction, a
\* broadcast or an iteration dimension with either contiguity.
BcastDimKinds ==
    {[iter_type |-> "reduction", contiguity |-> "nullopt"],
     [iter_type |-> "broadcast", contiguity |-> "nullopt"],
     [iter_type |-> "iteration", contiguity |-> "true"],
     [iter_type |-> "iteration", contiguity |-> "false"]}

BroadcastFusion(kinds, allocation, flags) ==
    LET rank == Len(kinds)
        in_rfactor == [k \in 1..rank |-> IterDomain(k, kinds[k].iter_type, FALSE)]
        mapped == NonReduction([k \in 1..rank |->
                                   IterDomain(10 + k, kinds[k].iter_type, FALSE)])
        out_rfactor ==
            [p \in DOMAIN flags |->
                IF flags[p]
                THEN IterDomain(30 + p, "broadcast", FALSE)
                ELSE mapped[Cardinality({q \in 1..p : ~flags[q]})]]
        alloc == [i \in DOMAIN allocation |-> in_rfactor[allocation[i]]]
        contig == [i \in DOMAIN allocation |-> kinds[allocation[i]].contiguity]
    IN  [tv |-> <<[isFusionInput |-> TRUE, isFusionOutput |-> FALSE,
                   root |-> in_rfactor, rfactor |-> in_rfactor,
                   allocation |-> alloc, contiguity |-> contig],
                  [isFusionInput |-> FALSE, isFusionOutput |-> TRUE,
                   root |-> out_rfactor, rfactor |-> out_rfactor,
                   allocation |-> <<>>,
                   contiguity |-> [i \in DOMAIN out_rfactor |-> "nullopt"]]>>,
         op |-> [kind |-> "broadcast", mapped_root |-> mapped,
                 is_broadcast_dim |-> flags]]

\* is_broadcast_dim vectors with `old` dimensions kept and 1..MaxNewBroadcast new.
BroadcastFlags(old) ==
    UNION {{f \in SeqsOfLen(BOOLEAN, old + new) :
               Cardinality({p \in 1..(old + new) : f[p]}) = new} :
           new \in 1..MaxNewBroadcast}

InitBroadcast ==
    /\ \E rank \in 1..MaxBcastRank :
           \E kinds \in SeqsOfLen(BcastDimKinds, rank),
              allocation \in AllocationOrders(Ids(rank)) :
               \E flags \in BroadcastFlags(
                       Cardinality({k \in 1..rank : kinds[k].iter_type # "reduction"})) :
                   fusion = BroadcastFusion(kinds, allocation, flags)
    /\ AliasIdle
    /\ pc = "rule"
    /\ error = NoError
    /\ LayoutIdle
    /\ MeshIdle

NextBroadcast == HandleBroadcast

SpecBroadcast == InitBroadcast /\ [][NextBroadcast]_vars

(***************************************************************************)
(* AliasFinder::handle for a ViewOp                                        *)
(***************************************************************************)
has_value(c) == c # "nullopt"

splitContiguity_BothInherit(contiguity) ==
    IF ~has_value(contiguity) THEN <<"nullopt", "nullopt">>
    ELSE <<contiguity, contiguity>>

\* <<outer contiguity, inner contiguity>>
splitContiguity(contiguity) ==
    IF ~has_value(contiguity) THEN <<"nullopt", "nullopt">>
    ELSE IF contiguity = "true" THEN <<"true", "true">>
    ELSE <<"true", "false">>

\* <<mergeable, contiguity>>
mergeContiguity_ContiguousOuterFirst(outer_id, outer_contiguity, inner_id, inner_contiguity) ==
    IF outer_contiguity = "true" THEN <<TRUE, inner_contiguity>>
    ELSE IF ~has_value(outer_contiguity) /\ ~hasExpandedExtent(outer_id)
    THEN <<TRUE, inner_contiguity>>
    ELSE IF ~has_value(inner_contiguity) /\ ~hasExpandedExtent(inner_id)
    THEN <<TRUE, outer_contiguity>>
    ELSE IF hasExpandedExtent(outer_id) /\ hasExpandedExtent(inner_id)
    THEN <<TRUE, "nullopt">>
    ELSE <<FALSE, "nullopt">>

mergeContiguity(outer_id, outer_contiguity, inner_id, inner_contiguity) ==
    IF ~has_value(outer_contiguity) /\ ~hasExpandedExtent(outer_id)
    THEN <<TRUE, inner_contiguity>>
    ELSE IF ~has_value(inner_contiguity) /\ ~hasExpandedExtent(inner_id)
    THEN <<TRUE, outer_contiguity>>
    ELSE IF hasExpandedExtent(outer_id) /\ hasExpandedExtent(inner_id)
    THEN <<TRUE, "nullopt">>
    ELSE IF hasExpandedExtent(outer_id) \/ hasExpandedExtent(inner_id)
    THEN <<FALSE, "nullopt">>
    ELSE IF outer_contiguity = "true"
    THEN <<TRUE, inner_contiguity>>
    ELSE <<FALSE, "nullopt">>

\* LinkedHashMap<IterDomain*, optional<bool>>: a sequence of entries in
\* insertion order.  An iterator is an index; end() is Len + 1.
Entry(key, value) == [key |-> key, value |-> value]
KeyIndex(map, key) == CHOOSE i \in DOMAIN map : map[i].key = key

\* erase(key): the erased value, the iterator to the entry after it, and
\* the map without the entry.
erase(map, key) ==
    LET i == KeyIndex(map, key)
    IN  [value |-> map[i].value,
         index |-> i,
         map |-> SubSeq(map, 1, i - 1) \o SubSeq(map, i + 1, Len(map))]

\* insert(iterator, key, value): the new entry goes before the iterator.
insert(map, index, key, value) ==
    SubSeq(map, 1, index - 1) \o <<Entry(key, value)>>
    \o SubSeq(map, index, Len(map))

map_or_identity(map, id) == IF id \in DOMAIN map THEN map[id] ELSE id

\* PairwiseRootDomainMap(in, out).mapConsumerToProducer()
mapConsumerToProducer(in, out) ==
    LET p2c == mapProducerToConsumer(in, out)
    IN  [c \in {p2c[d] : d \in DOMAIN p2c} |-> CHOOSE d \in DOMAIN p2c : p2c[d] = c]

\* The test after erase(merge_outer): inner_i is end() or not merge_inner.
notAdjacent_NeverChecked(map, inner_i, merge_inner) == FALSE

notAdjacent(map, inner_i, merge_inner) ==
    \/ inner_i = Len(map) + 1
    \/ map[inner_i].key # merge_inner

\* The replay loop over the exprs between out's root and rfactor, on the
\* map allocation_to_contiguity; done is FALSE when the rule returned early.
RECURSIVE ViewReplay(_, _, _)
ViewReplay(allocation_to_contiguity, transforms, out_root_to_in_rfactor) ==
    IF transforms = <<>>
    THEN [done |-> TRUE, map |-> allocation_to_contiguity]
    ELSE LET transform == Head(transforms)
         IN  IF transform.kind = "split"
             THEN LET split_in == map_or_identity(out_root_to_in_rfactor, transform.in)
                      e == erase(allocation_to_contiguity, split_in)
                      c == splitContiguity(e.value)
                      m1 == insert(e.map, e.index, transform.outer, c[1])
                      m2 == insert(m1, e.index + 1, transform.inner, c[2])
                  IN  ViewReplay(m2, Tail(transforms), out_root_to_in_rfactor)
             ELSE LET merge_inner == map_or_identity(out_root_to_in_rfactor, transform.inner)
                      merge_outer == map_or_identity(out_root_to_in_rfactor, transform.outer)
                      eo == erase(allocation_to_contiguity, merge_outer)
                  IN  IF notAdjacent(eo.map, eo.index, merge_inner)
                      THEN [done |-> FALSE, map |-> eo.map]
                      ELSE LET ei == erase(eo.map, merge_inner)
                               mc == mergeContiguity(merge_outer, eo.value,
                                                     merge_inner, ei.value)
                           IN  IF ~mc[1]
                               THEN [done |-> FALSE, map |-> ei.map]
                               ELSE ViewReplay(
                                        insert(ei.map, ei.index, transform.out, mc[2]),
                                        Tail(transforms), out_root_to_in_rfactor)

\* allocation_to_contiguity as first collected from in's preferred layout.
CollectAllocation(in_layout) ==
    LET drop == [i \in DOMAIN in_layout.allocation_domain |->
                    isReduction(in_layout.allocation_domain[i])]
        ids == Without(in_layout.allocation_domain, drop)
        flags == Without(in_layout.contiguity, drop)
    IN  [i \in DOMAIN ids |-> Entry(ids[i], flags[i])]

\* out_layout from the replayed map.
ViewOutLayout(map) ==
    LET in_rfactor_to_out_root == mapProducerToConsumer(OpIn, OpOut)
    IN  Layout([i \in DOMAIN map |-> map_or_identity(in_rfactor_to_out_root, map[i].key)],
               [i \in DOMAIN map |-> map[i].value])

HandleView ==
    /\ pc = "rule"
    /\ fusion.op.kind = "view"
    /\ pc' = "handled"
    /\ LET in_layout == preferredLayout(OpIn)
           replayed == ViewReplay(CollectAllocation(in_layout), fusion.op.transforms,
                                  mapConsumerToProducer(OpIn, OpOut))
       IN  IF ~isPermutation(getMaybeRFactorDomain(OpIn), in_layout.allocation_domain)
           THEN UNCHANGED <<alias_to_source, error>>
           ELSE IF ~replayed.done
           THEN UNCHANGED <<alias_to_source, error>>
           ELSE LET r == AddOutcome(alias_to_source, OpOut, OpIn,
                                    ViewOutLayout(replayed.map))
                IN  /\ alias_to_source' = r.map
                    /\ error' = r.error
    /\ UNCHANGED <<fusion, out_to_root, can_override, layoutVars, meshVars>>

\* The viewed tensors: a dimension of the input is a reduction, a
\* broadcast, an expanded broadcast, or an iteration dimension with either
\* contiguity.
ViewDimKinds ==
    {[iter_type |-> "reduction", expanded |-> FALSE, contiguity |-> "nullopt"],
     [iter_type |-> "broadcast", expanded |-> FALSE, contiguity |-> "nullopt"],
     [iter_type |-> "broadcast", expanded |-> TRUE, contiguity |-> "nullopt"],
     [iter_type |-> "iteration", expanded |-> FALSE, contiguity |-> "true"],
     [iter_type |-> "iteration", expanded |-> FALSE, contiguity |-> "false"]}

Split(in, outer, inner) ==
    [kind |-> "split", in |-> in, outer |-> outer, inner |-> inner]
Merge(outer, inner, out) ==
    [kind |-> "merge", outer |-> outer, inner |-> inner, out |-> out]

\* The IterDomains a transform makes.  out's root carries no expanded
\* extents (the TODO before map_or_identity), so neither do they.
MergedType(outer, inner) ==
    IF isBroadcast(outer) /\ isBroadcast(inner) THEN "broadcast" ELSE "iteration"

\* Every sequence of at most n transforms on the live IterDomains, in
\* dependency order; fresh numbers the IterDomains they make.
RECURSIVE TransformSeqs(_, _, _)
TransformSeqs(live, n, fresh) ==
    IF n = 0 THEN {<<>>}
    ELSE {<<>>}
         \cup UNION {
                {<<Split(x, IterDomain(fresh, x.iter_type, FALSE),
                         IterDomain(fresh + 1, x.iter_type, FALSE))>> \o rest :
                    rest \in TransformSeqs(
                        (live \ {x}) \cup {IterDomain(fresh, x.iter_type, FALSE),
                                           IterDomain(fresh + 1, x.iter_type, FALSE)},
                        n - 1, fresh + 2)} :
                x \in live}
         \cup UNION {
                {<<Merge(pair[1], pair[2],
                         IterDomain(fresh, MergedType(pair[1], pair[2]), FALSE))>> \o rest :
                    rest \in TransformSeqs(
                        (live \ {pair[1], pair[2]})
                            \cup {IterDomain(fresh, MergedType(pair[1], pair[2]), FALSE)},
                        n - 1, fresh + 1)} :
                pair \in {q \in live \X live : q[1] # q[2]}}

\* out's rfactor domain: its root with every transform applied in place.
RECURSIVE ApplyTransforms(_, _)
ApplyTransforms(domain, transforms) ==
    IF transforms = <<>> THEN domain
    ELSE LET t == Head(transforms)
         IN  IF t.kind = "split"
             THEN LET i == IndexOf(domain, t.in)
                  IN  ApplyTransforms(
                          SubSeq(domain, 1, i - 1) \o <<t.outer, t.inner>>
                          \o SubSeq(domain, i + 1, Len(domain)), Tail(transforms))
             ELSE LET i == IndexOf(domain, t.outer)
                      merged == [domain EXCEPT ![i] = t.out]
                      j == IndexOf(merged, t.inner)
                  IN  ApplyTransforms(
                          SubSeq(merged, 1, j - 1) \o SubSeq(merged, j + 1, Len(merged)),
                          Tail(transforms))

ViewOutRoot(kinds) ==
    NonReduction([k \in DOMAIN kinds |-> IterDomain(10 + k, kinds[k].iter_type, FALSE)])

ViewFusion(kinds, allocation, transforms) ==
    LET rank == Len(kinds)
        in_rfactor == [k \in 1..rank |->
                          IterDomain(k, kinds[k].iter_type, kinds[k].expanded)]
        out_root == ViewOutRoot(kinds)
        out_rfactor == ApplyTransforms(out_root, transforms)
        alloc == [i \in DOMAIN allocation |-> in_rfactor[allocation[i]]]
        contig == [i \in DOMAIN allocation |-> kinds[allocation[i]].contiguity]
    IN  [tv |-> <<[isFusionInput |-> TRUE, isFusionOutput |-> FALSE,
                   root |-> in_rfactor, rfactor |-> in_rfactor,
                   allocation |-> alloc, contiguity |-> contig],
                  [isFusionInput |-> FALSE, isFusionOutput |-> TRUE,
                   root |-> out_root, rfactor |-> out_rfactor,
                   allocation |-> <<>>,
                   contiguity |-> [i \in DOMAIN out_rfactor |-> "nullopt"]]>>,
         op |-> [kind |-> "view", mapped_root |-> out_root,
                 transforms |-> transforms]]

InitView ==
    /\ \E rank \in 1..MaxViewRank :
           \E kinds \in SeqsOfLen(ViewDimKinds, rank),
              allocation \in AllocationOrders(Ids(rank)) :
               \E transforms \in TransformSeqs(Range(ViewOutRoot(kinds)),
                                                MaxTransforms, 41) :
                   fusion = ViewFusion(kinds, allocation, transforms)
    /\ AliasIdle
    /\ pc = "rule"
    /\ error = NoError
    /\ LayoutIdle
    /\ MeshIdle

NextView == HandleView

SpecView == InitView /\ [][NextView]_vars

(***************************************************************************)
(* Vocabulary of the properties.                                           *)
(***************************************************************************)
Finalized == pc = "finalized"
IsIo(t) == isFusionInput(t) \/ isFusionOutput(t)

\* `actual` meets `required` the way section 4.1 words it, written out flag
\* by flag.
Meets(actual, required) ==
    \/ required.allocation_domain = <<>>
    \/ /\ actual.allocation_domain = required.allocation_domain
       /\ \A i \in DOMAIN actual.allocation_domain :
              \/ actual.contiguity[i] = required.contiguity[i]
              \/ actual.contiguity[i] = "true" /\ required.contiguity[i] = "false"

\* The tensors t aliases, nearest first.
RECURSIVE ChainOf(_)
ChainOf(t) ==
    IF t \in DOMAIN alias_to_source
    THEN <<alias_to_source[t].source>> \o ChainOf(alias_to_source[t].source)
    ELSE <<>>

\* The first fusion input or output on t's chain, Null when there is none.
FirstIoOnChain(t) ==
    LET c == ChainOf(t)
        io == {i \in DOMAIN c : IsIo(c[i])}
    IN  IF io = {} THEN Null
        ELSE c[CHOOSE i \in io : \A j \in io : i <= j]

\* Output A aliases B, B aliases C, and B is an intermediate tensor.
HasChainABC(A) ==
    /\ A \in outputs
    /\ Len(ChainOf(A)) >= 2
    /\ ~IsIo(ChainOf(A)[1])

PassesGate(A) == okToRelayout(A, preferredLayout(A), can_override)

(***************************************************************************)
(* C1: add(alias, source, layout) on an alias that already has a source    *)
(* raises the fatal error naming the registered source and leaves the map  *)
(* as it was; a successful add only adds one new alias.  Hence an entry,   *)
(* once registered, never changes: every alias keeps its first source.     *)
(***************************************************************************)
C1_AddKeepsFirstSource ==
    [][pc' # "finalized" =>
        \/ /\ error' = NoError
           /\ pc' = "analysis"
           /\ \E a \in Tensors \ DOMAIN alias_to_source :
                  DOMAIN alias_to_source' = DOMAIN alias_to_source \cup {a}
           /\ \A a \in DOMAIN alias_to_source :
                  alias_to_source'[a] = alias_to_source[a]
        \/ /\ error'.kind = "two sources"
           /\ pc' = "aborted"
           /\ error'.alias \in DOMAIN alias_to_source
           /\ error'.existing = alias_to_source[error'.alias].source
           /\ alias_to_source' = alias_to_source]_vars

\* A second, different source was offered for an alias and rejected.
C1_Witness ==
    /\ pc = "aborted"
    /\ error.kind = "two sources"
    /\ error.source # error.existing
    /\ alias_to_source[error.alias].source = error.existing

(***************************************************************************)
(* C2: after finalize, an output whose registered alias layout does not    *)
(* comply with its own allocation domain and contiguity is absent from     *)
(* out_to_root, and finalize leaves alias_to_source as it was.             *)
(***************************************************************************)
GatedOut(o) ==
    /\ o \in outputs
    /\ o \in DOMAIN alias_to_source
    /\ ~Meets(alias_to_source[o].layout,
              Layout(getAllocationDomain(o), getContiguity(o)))

C2_FinalizeGating ==
    /\ [](Finalized => \A o \in Tensors : GatedOut(o) => getNearestAliasedIo(o) = Null)
    /\ [][pc' = "finalized" => alias_to_source' = alias_to_source]_vars

\* A gated output whose chain does reach a fusion input or output.
C2_Witness ==
    /\ Finalized
    /\ \E o \in Tensors :
          /\ GatedOut(o)
          /\ FirstIoOnChain(o) # Null
          /\ o \notin DOMAIN out_to_root

(***************************************************************************)
(* C3 as stated: for an output A with chain A -> B -> C through an         *)
(* intermediate B, passing the gate, getNearestAliasedIo(A) is C or the    *)
(* first fusion input/output on the chain, and never B.                    *)
(***************************************************************************)
C3_Original ==
    Finalized =>
        \A A \in Tensors :
            HasChainABC(A) /\ PassesGate(A) =>
                LET r == getNearestAliasedIo(A)
                IN  /\ r # ChainOf(A)[1]
                    /\ \/ r = ChainOf(A)[2]
                       \/ r # Null /\ r = FirstIoOnChain(A)

(***************************************************************************)
(* C3 amended: for such an output A, getNearestAliasedIo(A) is the first   *)
(* tensor on the chain that is a fusion input or output (C when C is one), *)
(* and null when the chain ends without one; it is never B.                *)
(***************************************************************************)
C3_Transitivity ==
    Finalized =>
        \A A \in Tensors :
            HasChainABC(A) /\ PassesGate(A) =>
                /\ getNearestAliasedIo(A) # ChainOf(A)[1]
                /\ getNearestAliasedIo(A) = FirstIoOnChain(A)

\* A -> B -> C with C a fusion input or output: A resolves to C.
C3_Witness ==
    /\ Finalized
    /\ \E A \in Tensors :
          /\ HasChainABC(A)
          /\ PassesGate(A)
          /\ IsIo(ChainOf(A)[2])
          /\ getNearestAliasedIo(A) = ChainOf(A)[2]

(***************************************************************************)
(* C10 as stated: the required layout is built from the output's explicit  *)
(* allocation domain when the override flag is false, and from its         *)
(* allocation domain or, if empty, its default domain when the flag is     *)
(* true; so an output with a nearest aliased io is in out_to_root exactly  *)
(* when its preferred layout meets that layout.                            *)
(***************************************************************************)
C10_Original ==
    Finalized =>
        \A o \in outputs :
            FirstIoOnChain(o) # Null =>
                (o \in DOMAIN out_to_root <=>
                    Meets(preferredLayout(o),
                          Layout(IF can_override
                                 THEN getMaybeAllocationDomain(o)
                                 ELSE getAllocationDomain(o),
                                 getContiguity(o))))

(***************************************************************************)
(* C10 amended: the required layout is built from the output's explicit    *)
(* (possibly empty) allocation domain when the override flag is true, and  *)
(* from its allocation domain or, if empty, its default domain when the    *)
(* flag is false; the contiguity is the output's own in both cases.        *)
(***************************************************************************)
C10_RequiredLayout ==
    Finalized =>
        \A o \in outputs :
            FirstIoOnChain(o) # Null =>
                (o \in DOMAIN out_to_root <=>
                    Meets(preferredLayout(o),
                          Layout(IF can_override
                                 THEN getAllocationDomain(o)
                                 ELSE getMaybeAllocationDomain(o),
                                 getContiguity(o))))

\* Without the override, an output with no explicit allocation domain is
\* held to its default domain and fails it.
C10_Witness ==
    /\ Finalized
    /\ ~can_override
    /\ \E o \in outputs :
          /\ FirstIoOnChain(o) # Null
          /\ getAllocationDomain(o) = <<>>
          /\ preferredLayout(o).allocation_domain # getMaybeAllocationDomain(o)
          /\ o \notin DOMAIN out_to_root

(***************************************************************************)
(* C7: isCompliantWith is reflexive on well-formed layouts, and with the   *)
(* same dimension sequence a contiguous actual flag satisfies a            *)
(* non-contiguous required flag while a non-contiguous actual flag does    *)
(* not satisfy a contiguous required one.                                  *)
(***************************************************************************)
SameButAt(i, a, r) ==
    /\ this_layout.allocation_domain = required_layout.allocation_domain
    /\ i \in DOMAIN this_layout.allocation_domain
    /\ this_layout.contiguity[i] = a
    /\ required_layout.contiguity[i] = r
    /\ \A j \in DOMAIN this_layout.allocation_domain \ {i} :
           this_layout.contiguity[j] = required_layout.contiguity[j]

C7_ComplianceMonotone ==
    compliant # "unchecked" =>
        /\ this_layout = required_layout => compliant = "yes"
        /\ \A i \in 1..MaxRank :
               /\ SameButAt(i, "true", "false") => compliant = "yes"
               /\ SameButAt(i, "false", "true") => compliant = "no"

\* A contiguous actual flag accepted against a non-contiguous requirement.
C7_Witness ==
    /\ compliant = "yes"
    /\ \E i \in 1..MaxRank : SameButAt(i, "true", "false")

(***************************************************************************)
(* C9: every device list in which an index occurs more than once is        *)
(* rejected with "device mesh has duplicates", a mesh built without error  *)
(* holds no index twice, and a duplicate-free list is stored as given.     *)
(***************************************************************************)
HasDuplicates(s) == \E i, j \in DOMAIN s : i # j /\ s[i] = s[j]

C9_MeshDeduplicated ==
    /\ HasDuplicates(devices) <=> error.kind = "device mesh has duplicates"
    /\ error = NoError => ~HasDuplicates(vector_) /\ vector_ = devices

(***************************************************************************)
(* Vocabulary of the slice properties.                                     *)
(***************************************************************************)
Handled == pc = "handled"
Registered == Handled /\ OpOut \in DOMAIN alias_to_source
SliceRegistered == Registered /\ fusion.op.kind = "slice"
OutLayout == alias_to_source[OpOut].layout
OutAlloc == OutLayout.allocation_domain
InLayout == Layout(getMaybeAllocationDomain(OpIn), getContiguity(OpIn))
InHasReduction == \E i \in DOMAIN InLayout.allocation_domain :
                      isReduction(InLayout.allocation_domain[i])

\* Some sliced dimension minor to i has only broadcast dimensions between.
SlicedBehind(i) ==
    \E j \in (i + 1)..Len(OutAlloc) :
        /\ isSliced(OutAlloc[j])
        /\ \A k \in (i + 1)..(j - 1) : isBroadcast(OutAlloc[k])

\* The nearest sliced dimension minor to i is a non-broadcast one, and only
\* broadcast dimensions lie between.
NonBroadcastSlicedBehind(i) ==
    \E j \in (i + 1)..Len(OutAlloc) :
        /\ isSliced(OutAlloc[j])
        /\ ~isBroadcast(OutAlloc[j])
        /\ \A k \in (i + 1)..(j - 1) :
               isBroadcast(OutAlloc[k]) /\ ~isSliced(OutAlloc[k])

\* A contiguous 3-D input in allocation order [d0,d1,d2], sliced on d2 only.
SliceExample ==
    /\ Len(getMaybeRFactorDomain(OpIn)) = 3
    /\ InLayout.allocation_domain = getMaybeRFactorDomain(OpIn)
    /\ InLayout.contiguity = <<"true", "true", "true">>
    /\ \A i \in 1..3 : getMaybeRFactorDomain(OpOut)[i].iter_type = "iteration"
    /\ fusion.op.resized = {getMaybeRFactorDomain(OpOut)[3]}

(***************************************************************************)
(* C4 as stated: a non-broadcast dimension of the slice's output is forced *)
(* to non-contiguous exactly when the nearest sliced dimension minor to it *)
(* is a non-broadcast one with only broadcast dimensions between (a        *)
(* broadcast dimension never sets the pending flag); broadcast dimensions  *)
(* get nullopt; the 3-D example yields [true, false, true].                *)
(***************************************************************************)
C4_Original ==
    SliceRegistered =>
        /\ \A i \in DOMAIN OutAlloc :
               /\ isBroadcast(OutAlloc[i]) => OutLayout.contiguity[i] = "nullopt"
               /\ ~isBroadcast(OutAlloc[i]) /\ NonBroadcastSlicedBehind(i)
                      => OutLayout.contiguity[i] = "false"
               /\ ~isBroadcast(OutAlloc[i]) /\ ~NonBroadcastSlicedBehind(i)
                      /\ ~InHasReduction
                      => OutLayout.contiguity[i] = InLayout.contiguity[i]
        /\ SliceExample => OutLayout.contiguity = <<"true", "false", "true">>

(***************************************************************************)
(* C4 amended: a non-broadcast dimension is forced to non-contiguous       *)
(* exactly when some sliced dimension minor to it, broadcast or not, has   *)
(* only broadcast dimensions between them; broadcast dimensions get        *)
(* nullopt and do not consume the pending flag, but a sliced broadcast     *)
(* dimension sets it.  The 3-D example yields [true, false, true].         *)
(***************************************************************************)
C4_SliceTightening ==
    SliceRegistered =>
        /\ \A i \in DOMAIN OutAlloc :
               /\ isBroadcast(OutAlloc[i]) => OutLayout.contiguity[i] = "nullopt"
               /\ ~isBroadcast(OutAlloc[i]) /\ SlicedBehind(i)
                      => OutLayout.contiguity[i] = "false"
               /\ ~isBroadcast(OutAlloc[i]) /\ ~SlicedBehind(i) /\ ~InHasReduction
                      => OutLayout.contiguity[i] = InLayout.contiguity[i]
        /\ SliceExample => OutLayout.contiguity = <<"true", "false", "true">>

\* The 3-D example, registered with contiguity [true, false, true].
C4_Witness ==
    /\ SliceRegistered
    /\ SliceExample
    /\ OutLayout.contiguity = <<"true", "false", "true">>

(***************************************************************************)
(* C8: the broadcast rule registers the input's preferred allocation order *)
(* without its reduction dimensions, mapped producer to consumer, in the   *)
(* same relative order and with the same contiguity flags, followed by the *)
(* new broadcast dimensions, each with nullopt contiguity.                 *)
(***************************************************************************)
BroadcastRegistered == Registered /\ fusion.op.kind = "broadcast"

\* Positions of in's preferred allocation domain that hold no reduction.
KeptPositions ==
    {i \in DOMAIN InLayout.allocation_domain :
        ~isReduction(InLayout.allocation_domain[i])}

\* The j-th smallest of KeptPositions.
KeptPosition(j) ==
    CHOOSE i \in KeptPositions :
        Cardinality({k \in KeptPositions : k <= i}) = j

\* out's rfactor positions the op marks as broadcast.
NewPositions ==
    {p \in DOMAIN getMaybeRFactorDomain(OpOut) : isBroadcastDim(p)}

C8_BroadcastPlacement ==
    BroadcastRegistered =>
        LET n == Cardinality(KeptPositions)
            m == Cardinality(NewPositions)
        IN  /\ Len(OutAlloc) = n + m
            /\ Len(OutLayout.contiguity) = n + m
            /\ \A j \in 1..n :
                   /\ OutAlloc[j] = mapProducerToConsumer(OpIn, OpOut)[
                                        InLayout.allocation_domain[KeptPosition(j)]]
                   /\ OutLayout.contiguity[j] = InLayout.contiguity[KeptPosition(j)]
            /\ \A j \in 1..m :
                   /\ OutAlloc[n + j] \in {getMaybeRFactorDomain(OpOut)[p] : p \in NewPositions}
                   /\ OutLayout.contiguity[n + j] = "nullopt"
            /\ \A j, k \in 1..m :
                   j < k => IndexOf(getMaybeRFactorDomain(OpOut), OutAlloc[n + j])
                            < IndexOf(getMaybeRFactorDomain(OpOut), OutAlloc[n + k])

\* A 2-D input in a permuted allocation order with a non-contiguous
\* dimension, broadcast with the new dimension not last in the logical shape.
C8_Witness ==
    /\ BroadcastRegistered
    /\ Len(getMaybeRFactorDomain(OpIn)) = 2
    /\ InLayout.allocation_domain # getMaybeRFactorDomain(OpIn)
    /\ \E i \in 1..2 : InLayout.contiguity[i] = "false"
    /\ isBroadcastDim(1)
    /\ OutAlloc[Len(OutAlloc)] = getMaybeRFactorDomain(OpOut)[1]

(***************************************************************************)
(* The view rule, seen from out's side: the order of the IterDomains alone *)
(* (contiguity ignored) as the transforms between root and rfactor act on  *)
(* it.                                                                     *)
(***************************************************************************)
ViewHandled == Handled /\ fusion.op.kind = "view"
ViewRegistered == Registered /\ fusion.op.kind = "view"
InIsPermutation ==
    isPermutation(getMaybeRFactorDomain(OpIn), InLayout.allocation_domain)

\* in's allocation order without reductions, as out's root IterDomains.
RootOrder ==
    [j \in 1..Cardinality(KeptPositions) |->
        mapProducerToConsumer(OpIn, OpOut)[InLayout.allocation_domain[KeptPosition(j)]]]

\* in's contiguity flags in the same order.
RootContiguity ==
    [j \in 1..Cardinality(KeptPositions) |-> InLayout.contiguity[KeptPosition(j)]]

SplitOrder(order, t) ==
    LET i == IndexOf(order, t.in)
    IN  SubSeq(order, 1, i - 1) \o <<t.outer, t.inner>>
        \o SubSeq(order, i + 1, Len(order))

InnerFollowsOuter(order, t) ==
    IndexOf(order, t.inner) = IndexOf(order, t.outer) + 1

Neighbours(order, t) ==
    IndexOf(order, t.inner) - IndexOf(order, t.outer) \in {1, -1}

MergeOrder(order, t) ==
    LET i == IndexOf(order, t.outer)
    IN  SubSeq(order, 1, i - 1) \o <<t.out>> \o SubSeq(order, i + 2, Len(order))

\* The first merge of ts whose inner operand is not the entry right after
\* its outer operand, with the order it meets: <<order, merge>>, or <<>>
\* when every merge finds its operands in place.
RECURSIVE FirstMisplacedMerge(_, _)
FirstMisplacedMerge(order, ts) ==
    IF ts = <<>> THEN <<>>
    ELSE LET t == Head(ts)
         IN  IF t.kind = "split"
             THEN FirstMisplacedMerge(SplitOrder(order, t), Tail(ts))
             ELSE IF ~InnerFollowsOuter(order, t) THEN <<order, t>>
             ELSE FirstMisplacedMerge(MergeOrder(order, t), Tail(ts))

(***************************************************************************)
(* C5: when the transforms of a view hold a merge whose operands are not   *)
(* adjacent (inner right after outer) in the allocation order at the time  *)
(* the merge is replayed, the view rule ends without a fatal error and     *)
(* without calling add: alias_to_source is as it was (empty) and out has   *)
(* no alias.                                                               *)
(***************************************************************************)
C5_NonAdjacentMergeRefused ==
    ViewHandled /\ InIsPermutation
        /\ FirstMisplacedMerge(RootOrder, fusion.op.transforms) # <<>>
    => /\ alias_to_source = EmptyMap
       /\ OpOut \notin DOMAIN alias_to_source
       /\ error = NoError

\* A split followed by a merge of two IterDomains that are not even
\* neighbours in the allocation order, both contiguous, handled with no
\* alias and no error.
C5_Witness ==
    /\ ViewHandled
    /\ InIsPermutation
    /\ \A j \in DOMAIN RootContiguity : RootContiguity[j] = "true"
    /\ Len(fusion.op.transforms) = 2
    /\ fusion.op.transforms[1].kind = "split"
    /\ LET m == FirstMisplacedMerge(RootOrder, fusion.op.transforms)
       IN  /\ m # <<>>
           /\ ~Neighbours(m[1], m[2])
    /\ OpOut \notin DOMAIN alias_to_source
    /\ error = NoError

(***************************************************************************)
(* C6: splitting a dimension of contiguity c and merging the two pieces    *)
(* back is mergeable and gives c again, for each of true, false and        *)
(* nullopt; a view whose transforms are such a pair registers in's         *)
(* allocation order, with the same length, order and contiguity flags, the *)
(* merged IterDomain standing where the split one stood.                   *)
(***************************************************************************)
RoundTrip ==
    /\ fusion.op.kind = "view"
    /\ Len(fusion.op.transforms) = 2
    /\ fusion.op.transforms[1].kind = "split"
    /\ fusion.op.transforms[2].kind = "merge"
    /\ fusion.op.transforms[2].outer = fusion.op.transforms[1].outer
    /\ fusion.op.transforms[2].inner = fusion.op.transforms[1].inner

C6_SplitMergeRoundTrip ==
    /\ \A c \in Contiguity :
           LET pieces == splitContiguity(c)
           IN  mergeContiguity(IterDomain(1, "iteration", FALSE), pieces[1],
                               IterDomain(2, "iteration", FALSE), pieces[2])
               = <<TRUE, c>>
    /\ Handled /\ RoundTrip /\ InIsPermutation =>
           /\ Registered
           /\ OutLayout.contiguity = RootContiguity
           /\ Len(OutAlloc) = Len(RootOrder)
           /\ \A j \in DOMAIN RootOrder :
                  OutAlloc[j] = IF RootOrder[j] = fusion.op.transforms[1].in
                                THEN fusion.op.transforms[2].out
                                ELSE RootOrder[j]

\* A 2-D input in a permuted allocation order whose non-contiguous
\* dimension is split and merged back, registered as non-contiguous.
C6_Witness ==
    /\ Handled
    /\ RoundTrip
    /\ InIsPermutation
    /\ Registered
    /\ Len(RootOrder) = 2
    /\ InLayout.allocation_domain # getMaybeRFactorDomain(OpIn)
    /\ \E j \in DOMAIN RootOrder :
           /\ RootOrder[j] = fusion.op.transforms[1].in
           /\ RootContiguity[j] = "false"
           /\ OutLayout.contiguity[j] = "false"
           /\ OutAlloc[j] = fusion.op.transforms[2].out

(***************************************************************************)
(* A view whose only transform merges two neighbouring dimensions of in's  *)
(* allocation order, the outer one contiguous: the operands the rule hands *)
(* to mergeContiguity and what it gets back.                               *)
(***************************************************************************)
TheMerge == fusion.op.transforms[1]
MergeOuterId == map_or_identity(mapConsumerToProducer(OpIn, OpOut), TheMerge.outer)
MergeInnerId == map_or_identity(mapConsumerToProducer(OpIn, OpOut), TheMerge.inner)
MergeOuterAt == IndexOf(RootOrder, TheMerge.outer)
MergeOuterContiguity == RootContiguity[MergeOuterAt]
MergeInnerContiguity == RootContiguity[MergeOuterAt + 1]
Merged ==
    mergeContiguity(MergeOuterId, MergeOuterContiguity,
                    MergeInnerId, MergeInnerContiguity)

ContiguousOuterMerge ==
    /\ ViewHandled
    /\ InIsPermutation
    /\ Len(fusion.op.transforms) = 1
    /\ TheMerge.kind = "merge"
    /\ InnerFollowsOuter(RootOrder, TheMerge)
    /\ MergeOuterContiguity = "true"

(***************************************************************************)
(* C11 as stated: with a contiguous outer dimension mergeContiguity        *)
(* returns mergeable and the inner's contiguity for every kind of inner    *)
(* dimension (contiguous, non-contiguous, broadcast, expanded broadcast),  *)
(* so the view is registered with the inner's flag on the merged           *)
(* dimension.                                                              *)
(***************************************************************************)
C11_Original ==
    ContiguousOuterMerge =>
        /\ Merged = <<TRUE, MergeInnerContiguity>>
        /\ Registered
        /\ OutLayout.contiguity[MergeOuterAt] = MergeInnerContiguity

(***************************************************************************)
(* C11 amended: with a contiguous outer dimension mergeContiguity returns  *)
(* mergeable with the inner's contiguity when the inner is contiguous or   *)
(* non-contiguous, mergeable with the outer's contiguity (true) when the   *)
(* inner is a broadcast without expanded extent, and not mergeable when    *)
(* the inner is an expanded broadcast; the view is registered with that    *)
(* flag on the merged dimension, or not registered at all.                 *)
(***************************************************************************)
C11_ContiguousOuterMerge ==
    ContiguousOuterMerge =>
        IF hasExpandedExtent(MergeInnerId)
        THEN /\ Merged = <<FALSE, "nullopt">>
             /\ ~Registered
             /\ error = NoError
        ELSE /\ Merged = <<TRUE, IF has_value(MergeInnerContiguity)
                                 THEN MergeInnerContiguity ELSE "true">>
             /\ Registered
             /\ OutLayout.contiguity[MergeOuterAt] = Merged[2]
             /\ Len(OutAlloc) = Len(RootOrder) - 1
             /\ OutAlloc[MergeOuterAt] = TheMerge.out

\* A contiguous outer merged with an expanded broadcast inner: refused.
C11_Witness ==
    /\ ContiguousOuterMerge
    /\ hasExpandedExtent(MergeInnerId)
    /\ isBroadcast(MergeInnerId)
    /\ ~Registered

(***************************************************************************)
(* C12: when the slice rule registers an alias, every non-broadcast        *)
(* dimension of out's allocation order that is not forced to               *)
(* non-contiguous has exactly the flag in's preferred layout holds for the *)
(* allocation dimension it is mapped from, whether or not in's allocation  *)
(* domain holds reduction dimensions.                                      *)
(***************************************************************************)
C12_SliceInheritsMappedFlag ==
    SliceRegistered =>
        /\ Len(OutAlloc) = Cardinality(KeptPositions)
        /\ \A i \in DOMAIN OutAlloc :
               ~isBroadcast(OutAlloc[i]) /\ ~SlicedBehind(i)
                   => OutLayout.contiguity[i] = InLayout.contiguity[KeptPosition(i)]

====
